---- MODULE Spec2Model ----
(***************************************************************************)
(* A model of rsvp_monitor.py: one crawl / parse / diff / notify / persist *)
(* cycle (main), with the pure functions parse_price, compare and          *)
(* compose_discord as operators and send_alert as a loop of POSTs.         *)
(*                                                                         *)
(* Strings are sequences of one-character strings, so that slicing,        *)
(* regular-expression search and decimal parsing are computed rather than  *)
(* assumed.  A character outside ASCII is one element named by its code    *)
(* point ("U+2022"), which keeps len() exact.                              *)
(***************************************************************************)
EXTENDS Integers, Sequences, FiniteSets, TLC

\* ------------------------------------------------------------------ bounds
\* Longest catalogue of a seed, in pages (the first page is the seed itself).
MaxPages == 2
\* Most nodes of a product document handed to parse_price.
MaxNodes == 2
\* Longest product list handed to compare.
MaxList == 2
\* Most full chunks of a message handed to send_alert on its own.
MaxChunks == 2

\* ------------------------------------------------------- strings, helpers
Digits == {"0", "1", "2", "3", "4", "5", "6", "7", "8", "9"}

DigitVal(c) ==
    CASE c = "0" -> 0 [] c = "1" -> 1 [] c = "2" -> 2 [] c = "3" -> 3
      [] c = "4" -> 4 [] c = "5" -> 5 [] c = "6" -> 6 [] c = "7" -> 7
      [] c = "8" -> 8 [] c = "9" -> 9

DigitChar(d) == <<"0", "1", "2", "3", "4", "5", "6", "7", "8", "9">>[d + 1]

\* The characters of the model's URLs in code-point order (str comparison).
CharOrder ==
    <<"-", ".", "/", "0", "1", "2", "3", "4", "5", "6", "7", "8", "9", ":",
      "a", "b", "c", "d", "e", "f", "g", "h", "i", "j", "k", "l", "m", "n",
      "o", "p", "q", "r", "s", "t", "u", "v", "w", "x", "y", "z">>

Ord(c) == CHOOSE i \in 1..Len(CharOrder) : CharOrder[i] = c

\* s < t for Python str: the first differing character decides, a proper
\* prefix is smaller.
StrLess(s, t) ==
    \E i \in 1..(Len(t)) :
        /\ \A j \in 1..(i - 1) : j <= Len(s) /\ s[j] = t[j]
        /\ \/ i = Len(s) + 1
           \/ i <= Len(s) /\ Ord(s[i]) < Ord(t[i])

StartsWith(s, prefix) ==
    /\ Len(s) >= Len(prefix)
    /\ SubSeq(s, 1, Len(prefix)) = prefix

RECURSIVE Join(_, _)
\* sep.join(parts)
Join(parts, sep) ==
    IF parts = <<>> THEN <<>>
    ELSE IF Len(parts) = 1 THEN parts[1]
    ELSE parts[1] \o sep \o Join(Tail(parts), sep)

\* s.replace(c, "")
Remove(s, c) == SelectSeq(s, LAMBDA x : x # c)

\* ------------------------------------------------------------------ CONFIG
BASE_URL ==
    <<"h", "t", "t", "p", "s", ":", "/", "/", "r", "s", "v", "p", "c", "i",
      "g", "a", "r", "s", ".", "c", "o", "m">>

HTTP == <<"h", "t", "t", "p">>

SEED_PAGES ==
    << BASE_URL \o <<"/", "e", "n", "/", "c", "u", "b", "a", "n", "s", "/">>,
       BASE_URL \o <<"/", "e", "n", "/", "n", "o", "n", "-", "c", "u", "b",
                     "a", "n", "s", "/">> >>

\* PRODUCT_RE.search(href): "-p", one or more digits, "/" somewhere in href.
PRODUCT_RE_search(href) ==
    \E i \in 1..Len(href) : \E k \in (i + 2)..(Len(href) - 1) :
        /\ href[i] = "-"
        /\ href[i + 1] = "p"
        /\ \A j \in (i + 2)..k : href[j] \in Digits
        /\ href[k + 1] = "/"

\* PRICE_RE matched at position i of s: the index of the match's last
\* character, 0 when there is no match at i.  [\d,]+ is greedy and "." is not
\* in its class, so the run it takes is the maximal one.
PRICE_RE_matchEnd(s, i) ==
    IF i > Len(s) \/ s[i] # "$" THEN 0
    ELSE LET run == {k \in (i + 1)..Len(s) :
                        \A j \in (i + 1)..k : s[j] \in Digits \cup {","}}
         IN  IF run = {} THEN 0
             ELSE LET k == CHOOSE m \in run : \A n \in run : n <= m
                  IN  IF /\ k + 3 <= Len(s)
                         /\ s[k + 1] = "."
                         /\ s[k + 2] \in Digits
                         /\ s[k + 3] \in Digits
                      THEN k + 3
                      ELSE 0

RECURSIVE PRICE_RE_findallFrom(_, _)
PRICE_RE_findallFrom(s, from) ==
    LET starts == {i \in from..Len(s) : PRICE_RE_matchEnd(s, i) # 0}
    IN  IF starts = {} THEN <<>>
        ELSE LET i == CHOOSE m \in starts : \A n \in starts : m <= n
                 e == PRICE_RE_matchEnd(s, i)
             IN  <<SubSeq(s, i, e)>> \o PRICE_RE_findallFrom(s, e + 1)

\* PRICE_RE.findall(s): the non-overlapping matches, left to right.
PRICE_RE_findall(s) == PRICE_RE_findallFrom(s, 1)

\* ------------------------------------------------------------ documents
\* A parsed page (BeautifulSoup): the h1 elements' texts, the content of a
\* price-carrying metadata element (<<>> when the page has none; it has no
\* visible text) and the body's nodes in document order, each with its tag,
\* its classes and its stripped text.
Node(tag, cls, text) == [tag |-> tag, cls |-> cls, text |-> text]

Soup(h1, meta, nodes) == [h1 |-> h1, meta |-> meta, nodes |-> nodes]

\* soup.find("h1"): <<>> stands for None.
find_h1(soup) == IF soup.h1 = <<>> THEN <<>> ELSE <<soup.h1[1]>>

\* soup.select_one("span." + cls): the first span carrying the class, in
\* document order; <<>> stands for None.
select_one(soup, cls) ==
    LET hits == {i \in 1..Len(soup.nodes) :
                    soup.nodes[i].tag = "span" /\ cls \in soup.nodes[i].cls}
    IN  IF hits = {} THEN <<>>
        ELSE <<soup.nodes[CHOOSE m \in hits : \A n \in hits : m <= n]>>

\* soup.get_text(" ", strip=True): every text string, stripped, joined by a
\* space.
get_text(soup) ==
    Join(soup.h1 \o [i \in 1..Len(soup.nodes) |-> soup.nodes[i].text], <<" ">>)

Returned(v) == [raised |-> FALSE, value |-> v]

Raised(e) == [raised |-> TRUE, value |-> e]

\* The extractor the specification describes: the metadata price first.
parse_price_metadata_first(soup) ==
    IF soup.meta # <<>> THEN Returned(<<"$">> \o soup.meta)
    ELSE LET a == select_one(soup, "price")
             b == select_one(soup, "price-item--sale")
             c == select_one(soup, "price-item")
             tag == IF a # <<>> THEN a ELSE IF b # <<>> THEN b ELSE c
         IN  IF tag # <<>> /\ PRICE_RE_findall(tag[1].text) # <<>>
             THEN Returned(PRICE_RE_findall(tag[1].text)[1])
             ELSE LET text_prices == PRICE_RE_findall(get_text(soup))
                  IN  IF text_prices # <<>>
                      THEN Returned(text_prices[Len(text_prices)])
                      ELSE Raised("ValueError")

\* parse_price(soup): the first selector that finds an element picks the tag
\* (a Tag is truthy whatever its text); PRICE_RE.search gives the first match
\* in its text; otherwise the last match of the whole visible text.
parse_price(soup) ==
    LET a == select_one(soup, "price")
        b == select_one(soup, "price-item--sale")
        c == select_one(soup, "price-item")
        tag == IF a # <<>> THEN a ELSE IF b # <<>> THEN b ELSE c
    IN  IF tag # <<>> /\ PRICE_RE_findall(tag[1].text) # <<>>
        THEN Returned(PRICE_RE_findall(tag[1].text)[1])
        ELSE LET text_prices == PRICE_RE_findall(get_text(soup))
             IN  IF text_prices # <<>>
                 THEN Returned(text_prices[Len(text_prices)])
                 ELSE Raised("ValueError")

\* Price texts and page fragments the documents are built from.
P10 == <<"$", "1", "0", ".", "0", "0">>

P12 == <<"$", "1", "2", ".", "5", "0">>

P1000 == <<"$", "1", "0", "0", "0", ".", "0", "0">>

P1000c == <<"$", "1", ",", "0", "0", "0", ".", "0", "0">>

NodeChoices ==
    { Node("span", {"price"}, P1000c),
      Node("span", {"price"}, <<"c", "a", "l", "l">>),
      Node("span", {"price-item--sale", "price-item"}, P12),
      Node("span", {"price-item"}, <<"w", "a", "s", " ">> \o P1000 \o <<" ">> \o P10),
      Node("del", {}, P1000),
      Node("text", {}, P12 \o <<"0">>),
      Node("text", {}, <<"$", "9", ".", "5">>) }

MetaChoices == { <<>>, <<"1", "0", ".", "0", "0">> }

TitleA == <<"A">>

TitleB == <<"B">>

RECURSIVE SeqsUpTo(_, _)
\* The sequences over S of length at most n.
SeqsUpTo(S, n) ==
    IF n = 0 THEN {<<>>}
    ELSE LET shorter == SeqsUpTo(S, n - 1)
         IN  shorter \cup {Append(q, x) : q \in {r \in shorter : Len(r) = n - 1}, x \in S}

ParseInputs ==
    { Soup(<<TitleA>>, m, ns) : m \in MetaChoices, ns \in SeqsUpTo(NodeChoices, MaxNodes) }

\* ------------------------------------------------------------- decimals
\* Decimal(s) for s of the form digits [ "." digits ]: the coefficient and the
\* number of fractional digits.  Decimal keeps every digit: no rounding.
RECURSIVE DigitsValue(_)
DigitsValue(ds) ==
    IF ds = <<>> THEN 0
    ELSE 10 * DigitsValue(SubSeq(ds, 1, Len(ds) - 1)) + DigitVal(ds[Len(ds)])

Decimal(s) ==
    LET dots == {i \in 1..Len(s) : s[i] = "."}
    IN  [coef |-> DigitsValue(Remove(s, ".")),
         scale |-> IF dots = {} THEN 0
                   ELSE Len(s) - (CHOOSE i \in dots : TRUE)]

RECURSIVE Pow10(_)
Pow10(n) == IF n = 0 THEN 1 ELSE 10 * Pow10(n - 1)

\* Decimal.__eq__ : equality of the numbers, whatever the exponents.
DecimalEq(a, b) == a.coef * Pow10(b.scale) = b.coef * Pow10(a.scale)

RECURSIVE NatDigits(_)
NatDigits(n) ==
    IF n < 10 THEN <<DigitChar(n)>>
    ELSE Append(NatDigits(n \div 10), DigitChar(n % 10))

RECURSIVE Grouped(_)
\* The digits of an integer part with a comma before every group of three.
Grouped(ds) ==
    IF Len(ds) <= 3 THEN ds
    ELSE Grouped(SubSeq(ds, 1, Len(ds) - 3)) \o <<",">> \o SubSeq(ds, Len(ds) - 2, Len(ds))

\* format(d, ","): the exponent is kept, the integer part is grouped.
FormatDecimal(d) ==
    LET unit == Pow10(d.scale)
        frac == NatDigits(unit + (d.coef % unit))
    IN  Grouped(NatDigits(d.coef \div unit))
          \o (IF d.scale = 0 THEN <<>> ELSE <<".">> \o Tail(frac))

\* Decimal(price.replace("$", "").replace(",", ""))
PriceDecimal(price) == Decimal(Remove(Remove(price, "$"), ","))

\* ---------------------------------------------------------- DIFF & STORE
Product(title, price, url) == [title |-> title, price |-> price, url |-> url]

\* {p["title"]: p for p in old}: a later product replaces an earlier one of
\* the same title.
old_lookup(old) ==
    [t \in {old[i].title : i \in 1..Len(old)} |->
        old[CHOOSE m \in 1..Len(old) :
                /\ old[m].title = t
                /\ \A n \in 1..Len(old) : old[n].title = t => n <= m]]

\* Prices compared as the strings they are, not as decimals.
PriceDiffers_as_text(old_price, new_price) == old_price # new_price

\* old_price != new_price, both Decimal.
PriceDiffers(old_price, new_price) ==
    ~DecimalEq(PriceDecimal(old_price), PriceDecimal(new_price))

RECURSIVE compare_loop(_, _, _)
\* The loop of compare over new, from the changes so far.
compare_loop(lookup, new, changes) ==
    IF new = <<>> THEN changes
    ELSE LET item == Head(new)
         IN  IF item.title \notin DOMAIN lookup
             THEN compare_loop(lookup, Tail(new),
                      [changes EXCEPT !.new = Append(@, item)])
             ELSE LET old_price == lookup[item.title].price
                  IN  IF PriceDiffers(old_price, item.price)
                      THEN compare_loop(lookup, Tail(new),
                               [changes EXCEPT !.price = Append(@,
                                   [title |-> item.title,
                                    old |-> <<"$">> \o FormatDecimal(PriceDecimal(old_price)),
                                    new |-> <<"$">> \o FormatDecimal(PriceDecimal(item.price)),
                                    url |-> item.url])])
                      ELSE compare_loop(lookup, Tail(new), changes)

compare(old, new) ==
    compare_loop(old_lookup(old), new, [new |-> <<>>, price |-> <<>>])

\* --------------------------------------------------------- DISCORD HELPER
MAX_LEN == 2000

NEW_HEADING ==
    <<"*", "*", "U+1F195", " ", "N", "e", "w", " ", "p", "r", "o", "d", "u",
      "c", "t", "s", "*", "*">>

PRICE_HEADING ==
    <<"*", "*", "U+1F4B2", " ", "P", "r", "i", "c", "e", " ", "c", "h", "a",
      "n", "g", "e", "s", "*", "*">>

NOTHING_CHANGED ==
    <<"N", "o", "t", "h", "i", "n", "g", " ", "c", "h", "a", "n", "g", "e",
      "d", ",", " ", "b", "u", "t", " ", "m", "o", "n", "i", "t", "o", "r",
      " ", "r", "a", "n", ".">>

Whitespace == {" ", "\n"}

RECURSIVE Strip(_)
\* s.strip()
Strip(s) ==
    IF s = <<>> THEN s
    ELSE IF s[1] \in Whitespace THEN Strip(Tail(s))
    ELSE IF s[Len(s)] \in Whitespace THEN Strip(SubSeq(s, 1, Len(s) - 1))
    ELSE s

new_line(p) ==
    <<"U+2022", " ">> \o p.title \o <<" ", "U+2013", " ">> \o p.price
        \o <<" ", " ", "<">> \o p.url \o <<">">>

price_line(p) ==
    <<"U+2022", " ">> \o p.title \o <<":", " ">> \o p.old
        \o <<" ", "U+2192", " ", "*", "*">> \o p.new
        \o <<"*", "*", " ", " ", "<">> \o p.url \o <<">">>

compose_discord(changes) ==
    LET parts ==
            (IF changes.new # <<>>
             THEN <<NEW_HEADING>> \o [i \in 1..Len(changes.new) |-> new_line(changes.new[i])]
             ELSE <<>>)
         \o (IF changes.price # <<>>
             THEN <<PRICE_HEADING>> \o [i \in 1..Len(changes.price) |-> price_line(changes.price[i])]
             ELSE <<>>)
        msg == Strip(Join(parts, <<"\n">>))
    IN  IF msg # <<>> THEN msg ELSE NOTHING_CHANGED

\* --------------------------------------------------------------- the site
\* Hrefs of the catalogue pages' anchors.
HrefA == <<"/", "a", "-", "p", "1", "/">>

HrefB == <<"/", "b", "-", "p", "2", "2", "/">>

HrefPage2 == <<"/", "e", "n", "/", "c", "u", "b", "a", "n", "s", "/", "?", "p", "a", "g", "e", "=", "2">>

HrefNoDigits == <<"/", "c", "-", "p", "/">>

\* The anchors a seed's own page may carry.
FirstPages ==
    { {HrefA, BASE_URL \o HrefA, HrefPage2},
      {HrefB, HrefNoDigits},
      {} }

\* The anchors a further page of a seed (?page=N, N >= 2) may carry.
LaterPages == { {HrefA}, {HrefB} }

\* The catalogues of one seed: its own page, then its further pages.
Catalogues ==
    { <<first>> \o rest : first \in FirstPages,
                          rest \in SeqsUpTo(LaterPages, MaxPages - 1) }

\* The product pages the site may serve.
ProductPages ==
    { Soup(<<TitleA>>, <<>>, <<Node("span", {"price"}, P10)>>),
      Soup(<<TitleA>>, <<"1", "0", ".", "0", "0">>, <<Node("span", {"price"}, P1000c)>>),
      Soup(<<TitleB>>, <<>>, <<Node("del", {}, P1000), Node("text", {}, P10)>>),
      Soup(<<TitleB>>, <<>>, <<Node("text", {}, <<"c", "a", "l", "l">>)>>),
      Soup(<<>>, <<>>, <<Node("span", {"price"}, P10)>>) }

\* What a GET may answer: status 0 stands for no answer at all (a timeout, a
\* refused connection).
GetStatuses == {0, 200, 404, 503}

Response(status, body) == [status |-> status, body |-> body]

\* A GET as the log of requests keeps it.
Get(url, status) == [url |-> url, status |-> status]

\* ---------------------------------------------------------------- SCRAPING
\* fetch_soup without its raise_for_status: any answer is parsed.
fetch_soup_unchecked(r) ==
    IF r.status = 0 THEN Raised("ConnectionError")
    ELSE Returned(r.body)

\* fetch_soup: session.get raises without an answer, raise_for_status raises
\* on a 4xx or 5xx answer, otherwise the body is parsed.
fetch_soup(r) ==
    IF r.status = 0 THEN Raised("ConnectionError")
    ELSE IF r.status >= 400 /\ r.status < 600 THEN Raised("HTTPError")
    ELSE Returned(r.body)

\* The product hrefs as the anchors carry them, relative ones left relative.
product_links_unresolved(anchors) == {h \in anchors : PRODUCT_RE_search(h)}

\* The product URLs of a catalogue page's anchors.
product_links(anchors) ==
    { IF StartsWith(href, HTTP) THEN href ELSE BASE_URL \o href :
        href \in {h \in anchors : PRODUCT_RE_search(h)} }

RECURSIVE sorted(_)
\* sorted(urls): ascending in str order.
sorted(urls) ==
    IF urls = {} THEN <<>>
    ELSE LET least == CHOOSE u \in urls : \A v \in urls \ {u} : StrLess(u, v)
         IN  <<least>> \o sorted(urls \ {least})

\* The body of the loop over the product URLs: fetch, title, price.
visit_product(url, r) ==
    LET s == fetch_soup(r)
    IN  IF s.raised THEN s
        ELSE IF find_h1(s.value) = <<>> THEN Raised("AttributeError")
        ELSE LET price_of == parse_price(s.value)
             IN  IF price_of.raised THEN price_of
                 ELSE Returned(Product(Strip(find_h1(s.value)[1]), price_of.value, url))

\* ------------------------------------------------------------ the snapshot
\* A JSON value: null, a list or an object.  The tag sorts first.
JNull == [kind |-> "null", val |-> <<>>]

JList(items) == [kind |-> "list", val |-> items]

JDict(d) == [kind |-> "dict", val |-> d]

\* The snapshot file: absent, not JSON at all, or a JSON value.
FileAbsent == [kind |-> "absent", val |-> <<>>]

FileGarbage == [kind |-> "garbage", val |-> <<>>]

FileJson(j) == [kind |-> "json", val |-> j]

\* save_snapshot's value for a product list.
Snapshot(at, ps) == JDict([scraped_at |-> at, products |-> JList(ps)])

\* bool(x) of a JSON value.
Truthy(j) ==
    \/ j.kind = "dict"
    \/ j.kind = "list" /\ j.val # <<>>

UrlA == BASE_URL \o HrefA

UrlB == BASE_URL \o HrefB

\* Product lists of earlier cycles.
EarlierLists ==
    { <<>>,
      <<Product(TitleA, P10, UrlA)>>,
      <<Product(TitleA, P1000, UrlA), Product(TitleB, P10, UrlB)>> }

FileChoices ==
    {FileAbsent, FileGarbage}
      \cup {FileJson(Snapshot("t0", ps)) : ps \in EarlierLists}
      \cup { FileJson(JNull),
             FileJson(JList(<<Product(TitleA, P10, UrlA)>>)),
             FileJson(JDict([scraped_at |-> "t0"])),
             FileJson(JDict([scraped_at |-> "t0", products |-> JNull])) }

\* ------------------------------------------------------------------- state
VARIABLES
    pc,             \* where the run is: the function about to act
    error,          \* the exception that ended the run and where it rose
    WEBHOOK,        \* whether DISCORD_WEBHOOK is set (to a non-empty value)
    catalogue,      \* the site: for each seed, its pages' anchors
    gets,           \* the GETs so far, in order, each with its answer
    seed_i,         \* fetch_all_products: the seed the first loop is at
    product_urls,   \* fetch_all_products: the URLs discovered
    url_i,          \* fetch_all_products: the URL the second loop is at
    products,       \* fetch_all_products: the products visited
    soup,           \* parse_price: its argument
    price,          \* parse_price: its outcome
    file,           \* previous_products.json
    file_at_start,  \* the file as the run found it
    current,        \* main: the crawl's product list
    old_snapshot,   \* main: what load_previous returned
    old_products,   \* main: the prior product list
    diff,           \* main: what compare returned
    message,        \* send_alert: its argument
    start,          \* send_alert: the loop's offset into message
    log             \* the channel: every POST and every pause, in order

vars ==
    <<pc, error, WEBHOOK, catalogue, gets, seed_i, product_urls, url_i,
      products, soup, price, file, file_at_start, current, old_snapshot,
      old_products, diff, message, start, log>>

NoError == [exc |-> "", in |-> ""]

Error(exc, in) == [exc |-> exc, in |-> in]

NoDiff == [new |-> <<>>, price |-> <<>>]

NoSoup == Soup(<<>>, <<>>, <<>>)

\* A state in which nothing has run yet: the run is about to enter `at`, in
\* the environment given, with the arguments given.
Start(at, webhook, site, f, doc, old, new, msg) ==
    /\ pc = at
    /\ error = NoError
    /\ WEBHOOK = webhook
    /\ catalogue = site
    /\ gets = <<>>
    /\ seed_i = 1
    /\ product_urls = {}
    /\ url_i = 1
    /\ products = <<>>
    /\ soup = doc
    /\ price = Returned(<<>>)
    /\ file = f
    /\ file_at_start = f
    /\ current = new
    /\ old_snapshot = JNull
    /\ old_products = JList(old)
    /\ diff = NoDiff
    /\ message = msg
    /\ start = 0
    /\ log = <<>>

\* main is about to run.
Init ==
    \E webhook \in BOOLEAN, c1 \in Catalogues, c2 \in Catalogues, f \in FileChoices :
        Start("fetch_seeds", webhook, <<c1, c2>>, f, NoSoup, <<>>, <<>>, <<>>)

\* An exception saved in a finally clause: the snapshot is written as the
\* exception leaves main.
Raise_after_save(exc, in) ==
    /\ pc' = "raised"
    /\ error' = Error(exc, in)
    /\ file' = [kind |-> "json",
                val |-> [kind |-> "dict",
                         val |-> [scraped_at |-> "t1",
                                  products |-> [kind |-> "list", val |-> current]]]]

\* main catches nothing: an exception raised anywhere ends the run there,
\* and no later statement of main runs.
Raise(exc, in) ==
    /\ pc' = "raised"
    /\ error' = Error(exc, in)
    /\ file' = file

\* ------------------------------------------------------ fetch_all_products
\* One turn of the loop over SEED_PAGES: the seed's page is fetched and its
\* product links join product_urls.
FetchSeed ==
    /\ pc = "fetch_seeds"
    /\ seed_i <= Len(SEED_PAGES)
    /\ \E status \in GetStatuses :
        LET s == fetch_soup(Response(status, catalogue[seed_i][1]))
        IN  /\ gets' = Append(gets, Get(SEED_PAGES[seed_i], status))
            /\ IF s.raised
               THEN /\ Raise(s.value, "fetch_all_products")
                    /\ UNCHANGED <<seed_i, product_urls>>
               ELSE /\ product_urls' = product_urls \cup product_links(s.value)
                    /\ seed_i' = seed_i + 1
                    /\ pc' = IF seed_i = Len(SEED_PAGES) THEN "fetch_products" ELSE pc
                    /\ UNCHANGED <<error, file>>
    /\ UNCHANGED <<WEBHOOK, catalogue, url_i, products, soup, price,
                   file_at_start, current, old_snapshot, old_products, diff,
                   message, start, log>>

\* One turn of the loop over sorted(product_urls).
FetchProduct ==
    /\ pc = "fetch_products"
    /\ url_i <= Cardinality(product_urls)
    /\ \E status \in GetStatuses, page \in ProductPages :
        LET url == sorted(product_urls)[url_i]
            p == visit_product(url, Response(status, page))
        IN  /\ gets' = Append(gets, Get(url, status))
            /\ IF p.raised
               THEN /\ Raise(p.value, "fetch_all_products")
                    /\ UNCHANGED <<url_i, products>>
               ELSE /\ products' = Append(products, p.value)
                    /\ url_i' = url_i + 1
                    /\ UNCHANGED <<pc, error, file>>
    /\ UNCHANGED <<WEBHOOK, catalogue, seed_i, product_urls, soup, price,
                   file_at_start, current, old_snapshot, old_products, diff,
                   message, start, log>>

\* return products: main has its current list.
ReturnProducts ==
    /\ pc = "fetch_products"
    /\ url_i > Cardinality(product_urls)
    /\ current' = products
    /\ pc' = "load_previous"
    /\ UNCHANGED <<error, WEBHOOK, catalogue, gets, seed_i, product_urls, url_i,
                   products, soup, price, file, file_at_start, old_snapshot,
                   old_products, diff, message, start, log>>

\* --------------------------------------------------------------------- main
\* load_previous(): [] without a file, else whatever json.load gives.
load_previous(f) ==
    IF f.kind = "absent" THEN Returned(JList(<<>>))
    ELSE IF f.kind = "garbage" THEN Raised("JSONDecodeError")
    ELSE Returned(f.val)

\* old_snapshot["products"] if old_snapshot else []
products_of(snapshot) ==
    IF ~Truthy(snapshot) THEN Returned(JList(<<>>))
    ELSE IF snapshot.kind = "list" THEN Raised("TypeError")
    ELSE IF "products" \notin DOMAIN snapshot.val THEN Raised("KeyError")
    ELSE Returned(snapshot.val.products)

\* main, lines 175 and 176.
LoadPrevious ==
    /\ pc = "load_previous"
    /\ LET loaded == load_previous(file)
       IN  IF loaded.raised
           THEN /\ Raise(loaded.value, "load_previous")
                /\ UNCHANGED <<old_snapshot, old_products>>
           ELSE /\ old_snapshot' = loaded.value
                /\ LET old == products_of(loaded.value)
                   IN  IF old.raised
                       THEN /\ Raise(old.value, "main")
                            /\ UNCHANGED old_products
                       ELSE /\ old_products' = old.value
                            /\ pc' = "compare"
                            /\ UNCHANGED <<error, file>>
    /\ UNCHANGED <<WEBHOOK, catalogue, gets, seed_i, product_urls, url_i,
                   products, soup, price, file_at_start, current, diff,
                   message, start, log>>

\* main, line 178: compare iterates old, which a value that is no list
\* refuses.
Compare ==
    /\ pc = "compare"
    /\ IF old_products.kind # "list"
       THEN /\ Raise("TypeError", "compare")
            /\ UNCHANGED diff
       ELSE /\ diff' = compare(old_products.val, current)
            /\ pc' = "notify"
            /\ UNCHANGED <<error, file>>
    /\ UNCHANGED <<WEBHOOK, catalogue, gets, seed_i, product_urls, url_i,
                   products, soup, price, file_at_start, current,
                   old_snapshot, old_products, message, start, log>>

\* main, lines 179 and 180: send_alert is called for a diff that is not
\* empty.
Notify ==
    /\ pc = "notify"
    /\ IF diff.new # <<>> \/ diff.price # <<>>
       THEN /\ message' = compose_discord(diff)
            /\ start' = 0
            /\ pc' = "send_alert"
       ELSE /\ pc' = "save_snapshot"
            /\ UNCHANGED <<message, start>>
    /\ UNCHANGED <<error, WEBHOOK, catalogue, gets, seed_i, product_urls, url_i,
                   products, soup, price, file, file_at_start, current,
                   old_snapshot, old_products, diff, log>>

\* --------------------------------------------------------------- send_alert
\* What a POST may answer; 0 stands for no answer at all.
PostStatuses == {0, 200, 204, 400, 429, 500}

Post(chunk, status) == [op |-> "post", content |-> chunk, status |-> status]

Sleep == [op |-> "sleep", content |-> <<>>, status |-> 0]

\* A slice one character short of MAX_LEN.
chunk_at_short(msg, from) ==
    SubSeq(msg, from + 1,
           IF from + MAX_LEN - 1 < Len(msg) THEN from + MAX_LEN - 1 ELSE Len(msg))

\* message[start:start + MAX_LEN], start counted from 0.
chunk_at(msg, from) ==
    SubSeq(msg, from + 1, IF from + MAX_LEN < Len(msg) THEN from + MAX_LEN ELSE Len(msg))

\* The POST's outcome without raise_for_status: the status is only printed.
post_outcome_unchecked(status) ==
    IF status = 0 THEN Raised("ConnectionError")
    ELSE Returned(status)

\* The POST's outcome: requests.post raises without an answer, and
\* raise_for_status raises on a 4xx or 5xx answer.
post_outcome(status) ==
    IF status = 0 THEN Raised("ConnectionError")
    ELSE IF status >= 400 /\ status < 600 THEN Raised("HTTPError")
    ELSE Returned(status)

\* send_alert without its guard: requests.post refuses a URL of None.
SkipAlert_unguarded ==
    /\ pc = "send_alert"
    /\ ~WEBHOOK
    /\ Raise("MissingSchema", "send_alert")
    /\ UNCHANGED <<WEBHOOK, catalogue, gets, seed_i, product_urls, url_i,
                   products, soup, price, file_at_start, current,
                   old_snapshot, old_products, diff, message, start, log>>

\* if not WEBHOOK: return
SkipAlert ==
    /\ pc = "send_alert"
    /\ ~WEBHOOK
    /\ pc' = "save_snapshot"
    /\ UNCHANGED <<error, WEBHOOK, catalogue, gets, seed_i, product_urls, url_i,
                   products, soup, price, file, file_at_start, current,
                   old_snapshot, old_products, diff, message, start, log>>

\* One turn of the loop over range(0, len(message), MAX_LEN): the POST, the
\* status check and the pause.
PostChunk ==
    /\ pc = "send_alert"
    /\ WEBHOOK
    /\ start < Len(message)
    /\ \E status \in PostStatuses :
        LET r == post_outcome(status)
            sent == Append(log, Post(chunk_at(message, start), status))
        IN  IF r.raised
            THEN /\ log' = sent
                 /\ Raise(r.value, "send_alert")
                 /\ UNCHANGED start
            ELSE /\ log' = IF Len(message) > MAX_LEN THEN Append(sent, Sleep) ELSE sent
                 /\ start' = start + MAX_LEN
                 /\ UNCHANGED <<pc, error, file>>
    /\ UNCHANGED <<WEBHOOK, catalogue, gets, seed_i, product_urls, url_i,
                   products, soup, price, file_at_start, current,
                   old_snapshot, old_products, diff, message>>

\* The loop is over: send_alert returns to main.
EndAlert ==
    /\ pc = "send_alert"
    /\ WEBHOOK
    /\ start >= Len(message)
    /\ pc' = "save_snapshot"
    /\ UNCHANGED <<error, WEBHOOK, catalogue, gets, seed_i, product_urls, url_i,
                   products, soup, price, file, file_at_start, current,
                   old_snapshot, old_products, diff, message, start, log>>

\* ------------------------------------------------------------ save_snapshot
\* main, line 181: the file is overwritten with the crawl's list.
SaveSnapshot ==
    /\ pc = "save_snapshot"
    /\ file' = FileJson(Snapshot("t1", current))
    /\ pc' = "done"
    /\ UNCHANGED <<error, WEBHOOK, catalogue, gets, seed_i, product_urls, url_i,
                   products, soup, price, file_at_start, current, old_snapshot,
                   old_products, diff, message, start, log>>

Next ==
    \/ FetchSeed
    \/ FetchProduct
    \/ ReturnProducts
    \/ LoadPrevious
    \/ Compare
    \/ Notify
    \/ SkipAlert
    \/ PostChunk
    \/ EndAlert
    \/ SaveSnapshot

Spec == Init /\ [][Next]_vars

\* ------------------------------------------------- parse_price on its own
ParsePrice ==
    /\ pc = "parse_price"
    /\ price' = parse_price(soup)
    /\ pc' = "returned"
    /\ UNCHANGED <<error, WEBHOOK, catalogue, gets, seed_i, product_urls, url_i,
                   products, soup, file, file_at_start, current, old_snapshot,
                   old_products, diff, message, start, log>>

InitParse ==
    \E doc \in ParseInputs :
        Start("parse_price", FALSE, <<>>, FileAbsent, doc, <<>>, <<>>, <<>>)

NextParse == ParsePrice

SpecParse == InitParse /\ [][NextParse]_vars

\* ------------------------------------------------------ compare on its own
UrlC == BASE_URL \o <<"/", "c", "-", "p", "3", "/">>

CompareProducts ==
    { Product(TitleA, P10, UrlA), Product(TitleA, P1000, UrlA),
      Product(TitleA, P1000c, UrlA), Product(TitleB, P10, UrlB),
      Product(TitleA, P1000, UrlC) }

CompareInputs == SeqsUpTo(CompareProducts, MaxList)

InitCompare ==
    \E old \in CompareInputs, new \in CompareInputs :
        Start("compare", FALSE, <<>>, FileAbsent, NoSoup, old, new, <<>>)

NextCompare == Compare

SpecCompare == InitCompare /\ [][NextCompare]_vars

\* --------------------------------------------------- send_alert on its own
\* A message of n characters, no two chunks of it alike.
Text(n) == [i \in 1..n |-> CharOrder[(i % 7) + 1]]

\* Lengths at, just under and just over every multiple of MAX_LEN.
SendLengths ==
    { n \in {k * MAX_LEN + d : k \in 0..MaxChunks, d \in {-1, 0, 1}} : n >= 0 }

InitSend ==
    \E webhook \in BOOLEAN, n \in SendLengths :
        Start("send_alert", webhook, <<>>, FileAbsent, NoSoup, <<>>, <<>>, Text(n))

NextSend ==
    \/ SkipAlert
    \/ PostChunk
    \/ EndAlert

SpecSend == InitSend /\ [][NextSend]_vars

\* ================================================================== claims
\* What the claims speak of.
Rejected(e) == e.op = "post" /\ e.status >= 400 /\ e.status < 600

FailedGet(g) == g.status = 0 \/ (g.status >= 400 /\ g.status < 600)

NewSnapshot == FileJson(Snapshot("t1", current))

AfterCompare == {"notify", "send_alert", "save_snapshot", "done"}

\* C1 (as stated): in a cycle whose diff is not empty and whose webhook is
\* set, a chunk the channel rejects aborts the remaining sends, and the
\* snapshot then holds the current crawl's product list.
C1_SnapshotWrittenAfterRejection ==
    \A i \in 1..Len(log) :
        (WEBHOOK /\ Rejected(log[i])) =>
            /\ i = Len(log)
            /\ (pc \in {"raised", "done"} => file = NewSnapshot)

\* C1 (amended): a chunk the channel rejects is the last thing sent, the
\* error ends the run, and the snapshot stays what it was before the cycle.
C1_RejectionEndsRunBeforeSave ==
    \A i \in 1..Len(log) :
        Rejected(log[i]) =>
            /\ i = Len(log)
            /\ pc = "raised"
            /\ error = Error("HTTPError", "send_alert")
            /\ file = file_at_start

C1_Witness ==
    /\ pc = "raised"
    /\ WEBHOOK
    /\ diff.new # <<>>
    /\ log # <<>>
    /\ Rejected(log[Len(log)])
    /\ file_at_start.kind = "json"
    /\ file_at_start # NewSnapshot

\* A snapshot file of the shape save_snapshot writes.
WellFormed(f) ==
    /\ f.kind = "json"
    /\ f.val.kind = "dict"
    /\ DOMAIN f.val.val = {"scraped_at", "products"}
    /\ f.val.val.products.kind = "list"

\* C2: a snapshot that is absent or malformed is an empty prior list: the
\* cycle does not fail over it, every crawled product is new, nothing is
\* changed and the new snapshot is written.
C2_BadSnapshotIsFirstRun ==
    ~WellFormed(file_at_start) =>
        /\ error.in \notin {"load_previous", "main", "compare"}
        /\ pc \in AfterCompare => (diff.new = current /\ diff.price = <<>>)
        /\ pc = "done" => file = NewSnapshot

\* C3: a failed GET of a catalogue or product page, or a page without a price,
\* ends the cycle with the snapshot as it was; the snapshot is written only
\* once every discovered product has been fetched and parsed.
C3_FailFast ==
    /\ \A i \in 1..Len(gets) :
          FailedGet(gets[i]) =>
              /\ i = Len(gets)
              /\ pc = "raised"
              /\ error.in = "fetch_all_products"
    /\ error.in = "fetch_all_products" => (pc = "raised" /\ file = file_at_start)
    /\ file # file_at_start =>
          /\ seed_i > Len(SEED_PAGES)
          /\ Len(current) = Cardinality(product_urls)
          /\ \A i \in 1..Len(current) :
                /\ current[i].url = sorted(product_urls)[i]
                /\ PRICE_RE_findall(current[i].price) = <<current[i].price>>
                /\ \E g \in 1..Len(gets) :
                      gets[g] = Get(current[i].url, 200)

C3_Witness ==
    /\ pc = "raised"
    /\ error = Error("ValueError", "fetch_all_products")
    /\ products # <<>>
    /\ file_at_start.kind = "json"

\* C7: without a webhook a cycle whose diff is not empty posts nothing, does
\* not fail, and goes on to write the new snapshot.
C7_NoWebhookNoPost ==
    (~WEBHOOK) =>
        /\ log = <<>>
        /\ error.in # "send_alert"
        /\ pc = "send_alert" => ENABLED SkipAlert
        /\ message # <<>> =>
              /\ pc \in {"send_alert", "save_snapshot", "done"}
              /\ error = NoError
              /\ pc = "done" => file = NewSnapshot

C7_Witness ==
    /\ ~WEBHOOK
    /\ pc = "done"
    /\ diff.price # <<>>
    /\ message # <<>>
    /\ file = NewSnapshot

RECURSIVE PagedLinks(_, _, _)
\* Discovery as the specification has it: page 1 of a root, then page 2, 3,
\* ... until a page adds no product link; a page past the catalogue's end has
\* no link.
PagedLinks(pages, acc, n) ==
    IF n > Len(pages) THEN acc
    ELSE LET found == product_links(pages[n]) \ acc
         IN  IF n >= 2 /\ found = {} THEN acc
             ELSE PagedLinks(pages, acc \cup found, n + 1)

\* C9 (as stated): discovery holds every product link of every page before
\* the first page that adds none.
C9_PagesFollowed ==
    pc \in {"fetch_products", "load_previous"} =>
        PagedLinks(catalogue[2], PagedLinks(catalogue[1], {}, 1), 1) \subseteq product_urls

\* href resolved against the site, as a browser would.
Absolute(href) == IF href[1] = "/" THEN BASE_URL \o href ELSE href

\* C9 (amended): discovery fetches each root's own page once, in order, and
\* nothing else; what it returns is exactly the product links of those pages.
C9_OnlyRootPages ==
    pc \in {"fetch_products", "load_previous"} =>
        /\ Len(gets) >= Len(SEED_PAGES)
        /\ \A i \in 1..Len(SEED_PAGES) : gets[i] = Get(SEED_PAGES[i], 200)
        /\ \A i \in 1..Len(gets) : i > Len(SEED_PAGES) => gets[i].url \in product_urls
        /\ product_urls =
              { u \in {Absolute(h) : h \in catalogue[1][1] \cup catalogue[2][1]} :
                    PRODUCT_RE_search(u) }

C9_Witness ==
    /\ pc = "load_previous"
    /\ product_urls # {}
    /\ \E s \in 1..Len(SEED_PAGES) :
          /\ Len(catalogue[s]) >= 2
          /\ ~(product_links(catalogue[s][2]) \subseteq product_urls)

\* C4: compare(S, S) has no new and no changed product, whatever S is, two
\* products of one title included.
C4_SelfDiffEmpty ==
    (pc = "notify" /\ old_products = JList(current)) => diff = NoDiff

\* The price in dollars and cents of a price text, read digit by digit.
Cents(p) ==
    LET ds == SelectSeq(p, LAMBDA c : c \in Digits)
    IN  DigitsValue(ds)

TitlesOf(ps) == {ps[i].title : i \in 1..Len(ps)}

\* The product of old that stands for a title: the last one carrying it.
LastOf(old, title) ==
    old[CHOOSE i \in 1..Len(old) :
            /\ old[i].title = title
            /\ \A j \in (i + 1)..Len(old) : old[j].title # title]

\* C10: a product of new is new exactly when old has no product of its
\* title, changed exactly when old has one and the two prices differ as
\* numbers, and neither otherwise; both lists keep the order of new, and a
\* product only old has gives no entry.
C10_Classification ==
    pc = "notify" =>
        LET old == old_products.val
            isNew(p) == p.title \notin TitlesOf(old)
            isChanged(p) ==
                /\ p.title \in TitlesOf(old)
                /\ Cents(LastOf(old, p.title).price) # Cents(p.price)
            changed == SelectSeq(current, isChanged)
        IN  /\ diff.new = SelectSeq(current, isNew)
            /\ Len(diff.price) = Len(changed)
            /\ \A i \in 1..Len(changed) :
                  /\ diff.price[i].title = changed[i].title
                  /\ diff.price[i].url = changed[i].url
                  /\ Cents(diff.price[i].new) = Cents(changed[i].price)
                  /\ Cents(diff.price[i].old) = Cents(LastOf(old, changed[i].title).price)
            /\ Len(diff.new) + Len(diff.price) <= Len(current)
            /\ \A t \in TitlesOf(old) \ TitlesOf(current) :
                  /\ \A i \in 1..Len(diff.new) : diff.new[i].title # t
                  /\ \A i \in 1..Len(diff.price) : diff.price[i].title # t

C10_Witness ==
    /\ pc = "notify"
    /\ current # <<>>
    /\ diff = NoDiff
    /\ \E i \in 1..Len(current) :
          /\ current[i].title \in TitlesOf(old_products.val)
          /\ current[i].price # LastOf(old_products.val, current[i].title).price
    /\ TitlesOf(old_products.val) \ TitlesOf(current) # {}

\* The POSTs of the log, in order.
Posts == SelectSeq(log, LAMBDA e : e.op = "post")

RECURSIVE Concat(_)
Concat(chunks) ==
    IF chunks = <<>> THEN <<>> ELSE Head(chunks).content \o Concat(Tail(chunks))

\* send_alert has returned, having sent its message.
Delivered == pc = "save_snapshot" /\ WEBHOOK /\ Len(message) >= 1

\* C5: a message of L >= 1 characters goes out as ceil(L / 2000) chunks, in
\* order, each of 2000 characters but the last, which has at most 2000; there
\* is a pause before every chunk after the first, and none when one chunk is
\* all there is.
C5_Chunks ==
    Delivered =>
        /\ Len(Posts) = (Len(message) + 1999) \div 2000
        /\ \A k \in 1..Len(Posts) :
              /\ Len(Posts[k].content) <= 2000
              /\ k < Len(Posts) => Len(Posts[k].content) = 2000
        /\ Concat(Posts) = message
        /\ \A i \in 2..Len(log) : log[i].op = "post" => log[i - 1].op = "sleep"
        /\ Len(Posts) = 1 => \A i \in 1..Len(log) : log[i].op # "sleep"

C5_Witness ==
    /\ Delivered
    /\ Len(message) = 2 * MAX_LEN + 1
    /\ Len(Posts) = 3

\* C6: the POST of chunk k that is answered with a client or server error is
\* the last POST there is, the error is raised, and before it chunks 1 to
\* k - 1 went out in order.
C6_AbortOnFirstFailure ==
    \A i \in 1..Len(Posts) :
        Rejected(Posts[i]) =>
            /\ i = Len(Posts)
            /\ log[Len(log)] = Posts[i]
            /\ pc = "raised"
            /\ error = Error("HTTPError", "send_alert")
            /\ \A k \in 1..i :
                  /\ Posts[k].content =
                        SubSeq(message, 2000 * (k - 1) + 1,
                               IF 2000 * k < Len(message) THEN 2000 * k ELSE Len(message))
                  /\ k < i => ~Rejected(Posts[k])

C6_Witness ==
    /\ pc = "raised"
    /\ Len(Posts) = 3
    /\ Rejected(Posts[3])

\* The display-markup element parse_price reads: the first span of the first
\* class, in the selectors' order, that any span carries.
Selectors == <<"price", "price-item--sale", "price-item">>

DisplayTexts ==
    LET spans(c) == {i \in 1..Len(soup.nodes) :
                        soup.nodes[i].tag = "span" /\ c \in soup.nodes[i].cls}
        found == {k \in 1..Len(Selectors) : spans(Selectors[k]) # {}}
    IN  IF found = {} THEN <<>>
        ELSE LET k == CHOOSE m \in found : \A n \in found : m <= n
                 i == CHOOSE m \in spans(Selectors[k]) :
                          \A n \in spans(Selectors[k]) : m <= n
             IN  <<soup.nodes[i].text>>

\* C8 (as stated): of a structured-metadata price and a display-markup price
\* the metadata price is the one returned.
C8_MetadataWins ==
    (pc = "returned" /\ soup.meta # <<>> /\ DisplayTexts # <<>>) =>
        /\ ~price.raised
        /\ Cents(price.value) = Cents(soup.meta)

\* C8 (amended): two tiers, in order: the display-markup element's first
\* currency match, then the last currency match of the whole text; a metadata
\* price is not read; extraction fails only when the text has no match.
C8_DisplayThenText ==
    pc = "returned" =>
        LET shown == IF DisplayTexts = <<>> THEN <<>>
                     ELSE PRICE_RE_findall(DisplayTexts[1])
            all == PRICE_RE_findall(get_text(soup))
        IN  /\ shown # <<>> => price = Returned(shown[1])
            /\ (shown = <<>> /\ all # <<>>) => price = Returned(all[Len(all)])
            /\ price.raised <=> all = <<>>
            /\ price.raised => price.value = "ValueError"

C8_Witness ==
    /\ pc = "returned"
    /\ soup.meta # <<>>
    /\ DisplayTexts # <<>>
    /\ ~price.raised
    /\ Cents(price.value) # Cents(soup.meta)

====
